---- MODULE Spec2Model ----
(***************************************************************************)
(* A model of the lock-free broadcast channel of src/src/sync.rs.          *)
(*                                                                         *)
(* The shared state is the BroadcastChannel (head, tail, readers) and the  *)
(* chain of heap nodes.  Every Sender and every Receiver handle is owned   *)
(* by a thread of its own; each atomic operation of send, next and clone   *)
(* is one step, so that every interleaving of the atomics is explored.     *)
(*                                                                         *)
(* Nodes are numbered in allocation order; node 1 is the sentinel made by  *)
(* BroadcastChannel::new.  ptr::drop_in_place runs a node's destructor but *)
(* does not return its memory to the allocator, and AtomicPtr/AtomicUsize  *)
(* have no drop glue: the next and readers words of a dropped node keep    *)
(* their bits.  The value of a dropped node has been destroyed: reading it *)
(* (value.clone()) is a use after free whose result is arbitrary.          *)
(***************************************************************************)
EXTENDS Integers, Sequences, FiniteSets

\* ------------------------------------------------------------------ bounds
\* Sends started in a behaviour (nodes allocated besides the sentinel).
MaxSends == 3
\* Sender handles (the first one is made by broadcaster, the others by clone).
NumSenders == 2
\* Receiver handles (the first one is made by broadcaster, the others by clone).
MaxReceivers == 2
\* Payload values of T that the senders send.
NumValues == 1
\* Width of the usize counters in the model (fetch_add / fetch_sub wrap).
UsizeBits == 4

Senders == 1..NumSenders
Receivers == 1..MaxReceivers
Values == 1..NumValues
\* A value of T that no sender sent: what a read of destroyed memory may yield
Garbage == NumValues + 1

\* ptr::null_mut()
NULL == 0
\* Option::None in a node's value (the sentinel) and as a result of next()
None == 0
\* The node allocated by BroadcastChannel::new
Sentinel == 1

RECURSIVE Pow2(_)
Pow2(n) == IF n = 0 THEN 1 ELSE 2 * Pow2(n - 1)
UsizeMod == Pow2(UsizeBits)

\* AtomicUsize::fetch_add(1) / fetch_sub(1): the new value (wrapping)
WrapAdd(x) == (x + 1) % UsizeMod
WrapSub(x) == (x + UsizeMod - 1) % UsizeMod

VARIABLES
    head,       \* BroadcastChannel.head
    tail,       \* BroadcastChannel.tail
    readers,    \* BroadcastChannel.readers
    nodes,      \* the heap: sequence of Node records, indexed by node id
    torn,       \* BroadcastChannel::drop has run
    spc,        \* per sender: position in send ("unused", "idle", ..., "dropped")
    snode,      \* per sender: local `node` of send
    shead,      \* per sender: local `head` of send
    rpc,        \* per receiver: position in next / clone
    cur,        \* per receiver: Receiver.current
    rold,       \* per receiver: local `old` of next
    rval,       \* per receiver: local `value` of next
    chead,      \* per receiver: local `old_head` of clone
    got,        \* history: per receiver, the Some results of next, in order
    born,       \* history: per receiver, the channel when it was created
    casOrder    \* history: node ids in the order their head swap succeeded

vars == <<head, tail, readers, nodes, torn, spc, snode, shead, rpc, cur, rold,
          rval, chead, got, born, casOrder>>

chanVars == <<head, tail, readers>>
sendVars == <<spc, snode, shead>>
recvVars == <<rpc, cur, rold, rval, chead>>
histVars == <<got, born, casOrder>>

\* ------------------------------------------------------------------ nodes
\* struct Node { value, next, readers }; drops counts drop_in_place calls on
\* the node and by names the sender that allocated it (0: the constructor).
NewNode(v, rc, s) == [value |-> v, next |-> NULL, readers |-> rc, drops |-> 0, by |-> s]

NodeIds == 1..Len(nodes)
SentIds == 2..Len(nodes)
Freed(n) == nodes[n].drops > 0

\* (*node).value.clone(): the stored value; once the node has been dropped in
\* place the read is a use after free, which may still find the old bits or
\* anything else.
ReadValue(n) == IF Freed(n) THEN {nodes[n].value, Garbage} ELSE {nodes[n].value}

\* What the history keeps of a receiver's creation: the nodes allocated by
\* then, the node it started at, whether no send was in progress, and the
\* receiver it was cloned from (0: made by broadcaster).
Birth(n, at, q, p) == [nodes |-> n, start |-> at, quiet |-> q, from |-> p]
NoBirth == Birth(0, NULL, FALSE, 0)

\* Handles that keep the Arc<BroadcastChannel> alive.
LiveSenders == {s \in Senders : spc[s] \notin {"unused", "dropped"}}
LiveReceivers == {r \in Receivers : rpc[r] \notin {"unused", "dropped"}}

\* ------------------------------------------------------------------ init
\* broadcaster(): BroadcastChannel::new, Sender::new, Receiver::new
Init ==
    /\ nodes = <<NewNode(None, 1, 0)>>
    /\ head = Sentinel
    /\ tail = Sentinel
    /\ readers = 0
    /\ torn = FALSE
    /\ spc = [s \in Senders |-> IF s = 1 THEN "idle" ELSE "unused"]
    /\ snode = [s \in Senders |-> NULL]
    /\ shead = [s \in Senders |-> NULL]
    /\ rpc = [r \in Receivers |-> IF r = 1 THEN "idle" ELSE "unused"]
    /\ cur = [r \in Receivers |-> IF r = 1 THEN Sentinel ELSE NULL]
    /\ rold = [r \in Receivers |-> NULL]
    /\ rval = [r \in Receivers |-> None]
    /\ chead = [r \in Receivers |-> NULL]
    /\ got = [r \in Receivers |-> <<>>]
    /\ born = [r \in Receivers |-> IF r = 1 THEN Birth(1, Sentinel, TRUE, 0) ELSE NoBirth]
    /\ casOrder = <<>>

\* ------------------------------------------------------------------ send
\* send, lines 47-51: allocate the node, seeding its count from channel.readers
SendAlloc(s, v) ==
    /\ spc[s] = "idle"
    /\ Len(nodes) < MaxSends + 1
    /\ nodes' = Append(nodes, NewNode(v, readers, s))
    /\ snode' = [snode EXCEPT ![s] = Len(nodes) + 1]
    /\ spc' = [spc EXCEPT ![s] = "load"]
    /\ UNCHANGED <<chanVars, torn, shead, recvVars, histVars>>

\* send, line 54: head.load
SendLoadHead(s) ==
    /\ spc[s] = "load"
    /\ shead' = [shead EXCEPT ![s] = head]
    /\ spc' = [spc EXCEPT ![s] = "cas"]
    /\ UNCHANGED <<chanVars, nodes, torn, snode, recvVars, histVars>>

\* Mutant: head is stored without comparing it to the value loaded
CasAlways(s) == TRUE

\* send, lines 56-57: head.compare_and_swap(head, node) succeeds
CasOk(s) == head = shead[s]

\* Mutant: a failed swap is not retried, send returns
GiveUpPc == "idle"

\* Mutant: a failed swap is retried without loading head again
SpinPc == "cas"

\* send, lines 58-59: where a failed swap goes on (yield_now; continue)
RetryPc == "load"

\* send, lines 56-60: head.compare_and_swap(head, node); retry on failure
SendCasHead(s) ==
    /\ spc[s] = "cas"
    /\ IF CasOk(s)
       THEN /\ head' = snode[s]
            /\ casOrder' = Append(casOrder, snode[s])
            /\ spc' = [spc EXCEPT ![s] = IF shead[s] # NULL THEN "link" ELSE "idle"]
            /\ snode' = [snode EXCEPT ![s] = IF shead[s] # NULL THEN @ ELSE NULL]
       ELSE /\ spc' = [spc EXCEPT ![s] = RetryPc]
            /\ UNCHANGED <<head, casOrder, snode>>
    /\ UNCHANGED <<tail, readers, nodes, torn, shead, recvVars, got, born>>

\* Mutant: the link of the previous head is never written
LinkSkip(prev, node) == prev

\* old_node.next.compare_and_swap(null, node): the link after it, given the
\* link prev before it
LinkCas(prev, node) == IF prev = NULL THEN node ELSE prev

\* send, lines 63-74: link the previous head to the node, assert, return
SendLink(s) ==
    /\ spc[s] = "link"
    /\ LET prev == nodes[shead[s]].next IN
       /\ nodes' = [nodes EXCEPT ![shead[s]].next = LinkCas(prev, snode[s])]
       /\ spc' = [spc EXCEPT ![s] = IF prev = snode[s] THEN "panic" ELSE "idle"]
    /\ snode' = [snode EXCEPT ![s] = NULL]
    /\ shead' = [shead EXCEPT ![s] = NULL]
    /\ UNCHANGED <<chanVars, torn, recvVars, histVars>>

\* #[derive(Clone)] for Sender: another handle on the same channel
CloneSender(s, t) ==
    /\ spc[s] = "idle"
    /\ spc[t] = "unused"
    /\ \A u \in Senders : u < t => spc[u] # "unused"
    /\ spc' = [spc EXCEPT ![t] = "idle"]
    /\ UNCHANGED <<chanVars, nodes, torn, snode, shead, recvVars, histVars>>

\* ------------------------------------------------------------------ next
\* Mutant: the cursor jumps to the newest node instead of the next one
SuccessorHead(n) == IF nodes[n].next = NULL THEN NULL ELSE head

\* next, line 158: (*old).next.load
Successor(n) == nodes[n].next

\* next, lines 157-162: load old.next; None is the result, or the cursor moves
NextLoad(r) ==
    /\ rpc[r] = "idle"
    /\ LET current == Successor(cur[r]) IN
       IF current = NULL
       THEN /\ rpc' = [rpc EXCEPT ![r] = "none"]
            /\ UNCHANGED <<cur, rold>>
       ELSE /\ rold' = [rold EXCEPT ![r] = cur[r]]
            /\ cur' = [cur EXCEPT ![r] = current]
            /\ rpc' = [rpc EXCEPT ![r] = "val"]
    /\ UNCHANGED <<chanVars, nodes, torn, sendVars, rval, chead, histVars>>

\* Mutant: the count of the current node is decremented before None is returned
NextNoneDec(r) ==
    /\ rpc[r] = "none"
    /\ rpc' = [rpc EXCEPT ![r] = "idle"]
    /\ nodes' = [nodes EXCEPT ![cur[r]].readers = WrapSub(@)]
    /\ UNCHANGED <<chanVars, torn, sendVars, cur, rold, rval, chead, histVars>>

\* next, line 160: return None
NextNone(r) ==
    /\ rpc[r] = "none"
    /\ rpc' = [rpc EXCEPT ![r] = "idle"]
    /\ UNCHANGED <<chanVars, nodes, torn, sendVars, cur, rold, rval, chead, histVars>>

\* Mutant: the value is taken from the node the cursor leaves
ValueNodeOld(r) == rold[r]

\* next, line 163: the node whose value is returned (current, not old)
ValueNode(r) == cur[r]

\* next, line 163: value = (*current).value.clone()
NextValue(r) ==
    /\ rpc[r] = "val"
    /\ \E v \in ReadValue(ValueNode(r)) : rval' = [rval EXCEPT ![r] = v]
    /\ rpc' = [rpc EXCEPT ![r] = "dec"]
    /\ UNCHANGED <<chanVars, nodes, torn, sendVars, cur, rold, chead, histVars>>

\* next returns Some(value)
Return(r) ==
    /\ got' = [got EXCEPT ![r] = Append(@, [node |-> ValueNode(r), val |-> rval[r]])]
    /\ rpc' = [rpc EXCEPT ![r] = "idle"]
    /\ rold' = [rold EXCEPT ![r] = NULL]
    /\ rval' = [rval EXCEPT ![r] = None]

\* The test of line 165 on the count fetch_sub returned
LastReader(prev) == prev = 1

\* next, line 165: (*old).readers.fetch_sub(1) == 1
NextDec(r) ==
    /\ rpc[r] = "dec"
    /\ nodes' = [nodes EXCEPT ![rold[r]].readers = WrapSub(@)]
    /\ IF LastReader(nodes[rold[r]].readers)
       THEN /\ rpc' = [rpc EXCEPT ![r] = "free"]
            /\ UNCHANGED <<rold, rval, got>>
       ELSE Return(r)
    /\ UNCHANGED <<chanVars, torn, sendVars, cur, chead, born, casOrder>>

\* next, line 166: ptr::drop_in_place(old)
NextFree(r) ==
    /\ rpc[r] = "free"
    /\ nodes' = [nodes EXCEPT ![rold[r]].drops = @ + 1]
    /\ rpc' = [rpc EXCEPT ![r] = "tail"]
    /\ UNCHANGED <<chanVars, torn, sendVars, cur, rold, rval, chead, histVars>>

\* Mutant: tail is stored without comparing it to old
TailStore(t, old, current) == current

\* tail.compare_and_swap(old, current): the tail after it
TailCas(t, old, current) == IF t = old THEN current ELSE t

\* next, lines 167-172: tail.compare_and_swap(old, current); return the value
NextTail(r) ==
    /\ rpc[r] = "tail"
    /\ tail' = TailCas(tail, rold[r], cur[r])
    /\ Return(r)
    /\ UNCHANGED <<head, readers, nodes, torn, sendVars, cur, chead, born,
                   casOrder>>

\* ------------------------------------------------------------------ clone
\* Receiver handles not yet created, and receivers inside a call of clone (a
\* clone starts only while a handle is left for its result)
UnusedReceivers == {q \in Receivers : rpc[q] = "unused"}
Cloning == {q \in Receivers : rpc[q] \in {"cload", "cadd", "cchk", "csub"}}

\* clone, line 137: old_head = head.load (on entry, and again after a retry)
CloneLoad(r) ==
    /\ \/ rpc[r] = "cload"
       \/ rpc[r] = "idle" /\ Cardinality(UnusedReceivers) > Cardinality(Cloning)
    /\ chead' = [chead EXCEPT ![r] = head]
    /\ rpc' = [rpc EXCEPT ![r] = "cadd"]
    /\ UNCHANGED <<chanVars, nodes, torn, sendVars, cur, rold, rval, histVars>>

\* clone, line 138: readers.fetch_add(1)
CloneAdd(r) ==
    /\ rpc[r] = "cadd"
    /\ readers' = WrapAdd(readers)
    /\ rpc' = [rpc EXCEPT ![r] = "cchk"]
    /\ UNCHANGED <<head, tail, nodes, torn, sendVars, cur, rold, rval, chead,
                   histVars>>

\* The receiver handle a clone creates
NewReceiver == CHOOSE q \in Receivers :
                   rpc[q] = "unused" /\ \A p \in Receivers : p < q => rpc[p] # "unused"

\* clone, lines 139-149: re-read head; retry, or return the new Receiver
CloneCheck(r) ==
    /\ rpc[r] = "cchk"
    /\ IF chead[r] # head
       THEN /\ rpc' = [rpc EXCEPT ![r] = "csub"]
            /\ UNCHANGED <<cur, chead, born>>
       ELSE /\ rpc' = [rpc EXCEPT ![r] = "idle", ![NewReceiver] = "idle"]
            /\ cur' = [cur EXCEPT ![NewReceiver] = chead[r]]
            /\ born' = [born EXCEPT ![NewReceiver] =
                            Birth(Len(nodes), chead[r],
                                  \A s \in Senders : snode[s] = NULL, r)]
            /\ chead' = [chead EXCEPT ![r] = NULL]
    /\ UNCHANGED <<chanVars, nodes, torn, sendVars, rold, rval, got, casOrder>>

\* clone, line 140: readers.fetch_sub(1), then around the loop
CloneSub(r) ==
    /\ rpc[r] = "csub"
    /\ readers' = WrapSub(readers)
    /\ rpc' = [rpc EXCEPT ![r] = "cload"]
    /\ UNCHANGED <<head, tail, nodes, torn, sendVars, cur, rold, rval, chead,
                   histVars>>

\* ------------------------------------------------------------------ drop
\* Drop for BroadcastChannel, lines 81-88: the heap after walking from node n,
\* each node met dropped in place
RECURSIVE Teardown(_, _)
Teardown(n, heap) ==
    IF n = NULL THEN heap
    ELSE Teardown(heap[n].next, [heap EXCEPT ![n].drops = @ + 1])

\* The Arc's last reference goes: the channel is dropped
Release(lastOne) ==
    IF lastOne
    THEN /\ nodes' = Teardown(tail, nodes)
         /\ tail' = NULL
         /\ torn' = TRUE
    ELSE UNCHANGED <<nodes, tail, torn>>

\* A Sender handle is dropped
DropSender(s) ==
    /\ spc[s] = "idle"
    /\ spc' = [spc EXCEPT ![s] = "dropped"]
    /\ Release(LiveSenders = {s} /\ LiveReceivers = {})
    /\ UNCHANGED <<head, readers, snode, shead, recvVars, histVars>>

\* A Receiver handle is dropped (Receiver has no Drop of its own): its fields,
\* and what the history kept of it, go with it
DropReceiver(r) ==
    /\ rpc[r] = "idle"
    /\ rpc' = [rpc EXCEPT ![r] = "dropped"]
    /\ cur' = [cur EXCEPT ![r] = NULL]
    /\ got' = [got EXCEPT ![r] = <<>>]
    /\ born' = [born EXCEPT ![r] = NoBirth]
    /\ Release(LiveReceivers = {r} /\ LiveSenders = {})
    /\ UNCHANGED <<head, readers, sendVars, rold, rval, chead, casOrder>>

\* ------------------------------------------------------------------ spec
SendStep ==
    \/ \E s \in Senders, v \in Values : SendAlloc(s, v)
    \/ \E s \in Senders : SendLoadHead(s)
    \/ \E s \in Senders : SendCasHead(s)
    \/ \E s \in Senders : SendLink(s)

ReceiverStep ==
    \/ \E r \in Receivers : NextLoad(r)
    \/ \E r \in Receivers : NextNone(r)
    \/ \E r \in Receivers : NextValue(r)
    \/ \E r \in Receivers : NextDec(r)
    \/ \E r \in Receivers : NextFree(r)
    \/ \E r \in Receivers : NextTail(r)
    \/ \E r \in Receivers : CloneLoad(r)
    \/ \E r \in Receivers : CloneAdd(r)
    \/ \E r \in Receivers : CloneCheck(r)
    \/ \E r \in Receivers : CloneSub(r)

Next ==
    \/ SendStep
    \/ \E s, t \in Senders : CloneSender(s, t)
    \/ ReceiverStep

\* The handles are never dropped: dropping a Sender or a Receiver runs no code
\* of the channel until the last one goes, so a dropped handle behaves as a
\* handle whose thread takes no further step.
Spec == Init /\ [][Next]_vars

\* One Sender handle, any number of Receiver handles, and the handles dropped
\* at any time they are not inside a call; the channel is torn down with the
\* last of them.
NextDrop ==
    \/ SendStep
    \/ ReceiverStep
    \/ \E s \in Senders : DropSender(s)
    \/ \E r \in Receivers : DropReceiver(r)

SpecDrop == Init /\ [][NextDrop]_vars

TypeOK ==
    /\ head \in NodeIds
    /\ tail \in NodeIds \cup {NULL}
    /\ readers \in 0..(UsizeMod - 1)
    /\ \A n \in NodeIds : nodes[n].next \in NodeIds \cup {NULL}

\* ------------------------------------------------------------------ history
\* Nodes whose send call has returned (a sender inside send holds its node)
Returned == {n \in SentIds : \A s \in Senders : snode[s] # n}

\* The place of node n in the order of the head swaps; the sentinel comes first
Pos(n) == IF n = Sentinel THEN 0
          ELSE IF \E i \in 1..Len(casOrder) : casOrder[i] = n
               THEN CHOOSE i \in 1..Len(casOrder) : casOrder[i] = n
               ELSE Len(nodes) + 1

\* The nodes receiver r has read
GotSet(r) == {got[r][i].node : i \in 1..Len(got[r])}

\* Receiver r's call of next finds no successor: the step that decides None
ReturnsNone(r) == rpc[r] = "idle" /\ rpc'[r] = "none"

\* Every send so far was made by the first Sender handle; no Receiver was cloned
SingleSender == \A n \in SentIds : nodes[n].by = 1
SoleReceiver == Cloning = {} /\ \A r \in Receivers : r # 1 => rpc[r] = "unused"

\* ------------------------------------------------------------------ C1
\* The i-th result of the first receiver is the stored value of the i-th send
C1_FifoState ==
    \A i \in 1..Len(got[1]) : got[1][i] = [node |-> i + 1, val |-> nodes[i + 1].value]

\* C1: with a single sender, the i-th result of the receiver made by
\* broadcaster comes from the i-th send and, that receiver being the only one,
\* is the value sent; and its next returns None only when every send that has
\* returned has been read.
C1_SingleSenderFifo ==
    [][SingleSender' =>
          /\ \A i \in 1..Len(got'[1]) : got'[1][i].node = i + 1
          /\ SoleReceiver' => C1_FifoState'
          /\ ReturnsNone(1) => Len(got[1]) = Cardinality(Returned)]_vars

\* Every value read in order, then None
C1_Witness ==
    /\ SingleSender /\ SoleReceiver
    /\ Len(got[1]) = MaxSends
    /\ rpc[1] = "none"

\* The receivers created so far
Created == {r \in Receivers : rpc[r] # "unused"}

\* The i-th result of receiver r is the stored value of the i-th node after
\* node `at` in the order of the head swaps
ReadsFrom(r, at) ==
    \A i \in 1..Len(got[r]) :
        /\ Pos(at) + i <= Len(casOrder)
        /\ got[r][i] = [node |-> casOrder[Pos(at) + i],
                        val |-> nodes[casOrder[Pos(at) + i]].value]

\* ------------------------------------------------------------------ C2
\* C2: every receiver that exists before the first send reads the sent values,
\* all of them from the first on and in the one order of the chain, whatever
\* the other receivers have read.
C2_FanOut ==
    (\A r \in Created : born[r].nodes = 1) =>
        \A r \in Created : ReadsFrom(r, Sentinel)

\* ------------------------------------------------------------------ C3
\* C3: a receiver cloned after one or more sends, while no send is in
\* progress, returns none of the values sent before, and exactly the values
\* sent after the clone, in order; the receiver it was cloned from reads those
\* same values too.
C3_CloneIsolation ==
    \A q \in Created :
        (born[q].from # 0 /\ born[q].quiet /\ born[q].nodes > 1) =>
            /\ \A i \in 1..Len(got[q]) : got[q][i].node > born[q].nodes
            /\ ReadsFrom(q, born[q].start)
            /\ LET p == born[q].from IN
               \A j \in 1..Len(got[p]) :
                   got[p][j].node > born[q].nodes =>
                       got[p][j].val = nodes[got[p][j].node].value

\* ------------------------------------------------------------------ C4
\* The nodes receiver r has read are the nodes that follow its start node in
\* the order of the head swaps, one after the other
Segment(r) ==
    \A i \in 1..Len(got[r]) :
        /\ Pos(born[r].start) + i <= Len(casOrder)
        /\ got[r][i].node = casOrder[Pos(born[r].start) + i]

\* C4: there is one order of the sends, the order of the successful swaps of
\* head, in which no send occurs twice; what each receiver reads is a contiguous
\* run of it, and no step moves a receiver's cursor backward in it.
C4_TotalOrder ==
    [][/\ \A i, j \in 1..Len(casOrder') : i # j => casOrder'[i] # casOrder'[j]
       /\ \A r \in Created' : Segment(r)'
       /\ \A r \in Created : Pos(cur[r])' >= Pos(cur[r])]_vars

\* Two senders' swaps landed in another order than their calls started, the
\* first receiver read them all, and a clone that started inside the chain
\* has read as well
C4_Witness ==
    /\ \E i \in 1..(Len(casOrder) - 1) : casOrder[i] > casOrder[i + 1]
    /\ Len(got[1]) = MaxSends
    /\ Cardinality({nodes[n].by : n \in GotSet(1)}) > 1
    /\ \E q \in Created : born[q].start # Sentinel /\ Len(got[q]) > 0

\* ------------------------------------------------------------------ C5
\* No call of send is in progress
AllReturned == \A s \in Senders : snode[s] = NULL

\* C5: the receiver made by broadcaster never reads a send twice, reads only
\* sends that were made, and once every send call of every sender has returned
\* its next returns None only after it has read each of them: as many values as
\* sends, then None.
C5_NoLossNoDup ==
    [][/\ \A i, j \in 1..Len(got'[1]) : i # j => got'[1][i].node # got'[1][j].node
       /\ GotSet(1)' \subseteq SentIds'
       /\ (ReturnsNone(1) /\ AllReturned) =>
              GotSet(1) = SentIds /\ Len(got[1]) = Cardinality(SentIds)]_vars

\* Two senders have sent, all their sends have returned, the receiver has read
\* every one of them and gets None
C5_Witness ==
    /\ AllReturned
    /\ Cardinality({nodes[n].by : n \in SentIds}) > 1
    /\ Len(got[1]) = MaxSends
    /\ rpc[1] = "none"

\* ------------------------------------------------------------------ C6
\* C6: once every handle is dropped and the channel torn down, the value of
\* every node a send created has been released exactly once.
C6_ReleasedOnce == torn => \A n \in SentIds : nodes[n].drops = 1

\* ------------------------------------------------------------------ C7
\* C7: no receiver's cursor is a node that has been dropped, so no advance
\* reads the successor link or the value of a dropped node.
C7_NoUseAfterFree ==
    \A r \in LiveReceivers :
        /\ ~Freed(cur[r])
        /\ rpc[r] = "val" => ~Freed(ValueNode(r))

\* ------------------------------------------------------------------ C8
\* C8: when next returns None, the receiver has read every send, made after
\* its creation, whose call had returned.
C8_NoneMeansCaughtUp ==
    [][\A r \in Receivers :
          ReturnsNone(r) => {n \in Returned : n > born[r].nodes} \subseteq GotSet(r)]_vars

\* ------------------------------------------------------------------ C9
\* C9: two sends of one sender are swapped in, linked and read in the order
\* of the calls: the earlier call's node comes first in the order of the head
\* swaps, every link goes to the next node of that order, and a receiver that
\* has read both read the earlier one first.
C9_PerSenderOrder ==
    /\ \A a, b \in SentIds :
           (nodes[a].by = nodes[b].by /\ a < b /\ Pos(b) <= Len(casOrder)) =>
               Pos(a) < Pos(b)
    /\ \A n \in NodeIds :
           nodes[n].next # NULL => Pos(nodes[n].next) = Pos(n) + 1
    /\ \A r \in Created : \A i, j \in 1..Len(got[r]) :
           (nodes[got[r][i].node].by = nodes[got[r][j].node].by
                /\ got[r][i].node < got[r][j].node) => i < j

\* A receiver has read two sends of one sender that have a send of the other
\* sender between them
C9_Witness ==
    \E r \in Created : \E i, j, k \in 1..Len(got[r]) :
        /\ i < k /\ k < j
        /\ nodes[got[r][i].node].by = nodes[got[r][j].node].by
        /\ nodes[got[r][k].node].by # nodes[got[r][i].node].by

\* ------------------------------------------------------------------ C10
\* The steps of sender s inside a call of send
SendProgress(s) == SendLoadHead(s) \/ SendCasHead(s) \/ SendLink(s)

\* A fair scheduler: a sender thread inside send is eventually run
FairSpec == Spec /\ \A s \in Senders : WF_vars(SendProgress(s))

\* C10: under a fair scheduler every call of send that has started returns,
\* whatever the other senders and the receivers do, and none panics.
C10_SendCompletes ==
    /\ \A s \in Senders : (spc[s] \in {"load", "cas", "link"}) ~> (spc[s] = "idle")
    /\ [](\A s \in Senders : spc[s] # "panic")

\* A sender lost the race for head (the head it loaded has been replaced) and
\* is about to load head again
C10_Witness ==
    \E s \in Senders : spc[s] = "load" /\ shead[s] # NULL /\ shead[s] # head

\* ------------------------------------------------------------------ C11
\* The step that drops the Receiver handle r
Drops(r) == rpc[r] = "idle" /\ rpc'[r] = "dropped"

\* C11: the step that drops a receiver takes one from the count of the node
\* the receiver is at and one from the channel's total, leaves the count of
\* every other node alone, and so leaves the total equal to the number of live
\* receivers.
C11_DropReleases ==
    [][\A r \in Receivers :
          Drops(r) =>
              /\ nodes'[cur[r]].readers = WrapSub(nodes[cur[r]].readers)
              /\ readers' = WrapSub(readers)
              /\ \A n \in NodeIds : n # cur[r] => nodes'[n].readers = nodes[n].readers
              /\ readers' = Cardinality(LiveReceivers')]_vars

\* ------------------------------------------------------------------ C12
\* broadcaster has returned and nothing has been called since
Fresh ==
    /\ spc = [s \in Senders |-> IF s = 1 THEN "idle" ELSE "unused"]
    /\ rpc = [r \in Receivers |-> IF r = 1 THEN "idle" ELSE "unused"]
    /\ casOrder = <<>>

\* C12: right after broadcaster returns the only node is the sentinel, with no
\* value, no successor and count 1; head, tail and the receiver's cursor are
\* the sentinel; and the channel's total of receivers is 1.
C12_InitialState ==
    Fresh =>
        /\ Len(nodes) = 1
        /\ nodes[Sentinel].value = None
        /\ nodes[Sentinel].next = NULL
        /\ nodes[Sentinel].readers = 1
        /\ head = Sentinel /\ tail = Sentinel
        /\ cur[1] = Sentinel
        /\ readers = 1

\* ------------------------------------------------------------------ C13
\* The live receivers at node n or before it in the chain: those that have yet
\* to pass the successor of n
CanReach(n) == {r \in LiveReceivers : cur[r] # NULL /\ Pos(cur[r]) <= Pos(n)}

\* C13: when a send's swap makes its node the head, the node's count is the
\* number of live receivers that can still reach it: those at the head it
\* replaces or before.
C13_SeedCountsReaders ==
    [][head' # head => nodes'[head'].readers = Cardinality(CanReach(head))]_vars

\* ------------------------------------------------------------------ C14
\* The channel's total without the increments of the clone calls that have
\* still to decide between returning and retrying
InFlight == {r \in Receivers : rpc[r] \in {"cchk", "csub"}}
Registered == readers - Cardinality(InFlight)

\* The step in which a call of clone returns the new receiver q
Commits(q) == rpc[q] = "unused" /\ rpc'[q] = "idle"

\* C14: when clone returns, the total has gone up by exactly one for this
\* clone, the count of the clone's start node has been incremented by one, and
\* the start node is the head at that moment.
C14_CloneRegisters ==
    [][\A q \in Receivers :
          Commits(q) =>
              /\ Registered' = Registered + 1
              /\ nodes'[cur'[q]].readers = WrapAdd(nodes[cur'[q]].readers)
              /\ cur'[q] = head']_vars

\* ------------------------------------------------------------------ C15
\* C15: unless an advance stands between its drop_in_place and its update of
\* tail, tail is a node that has not been dropped, every node before it in the
\* chain has been dropped and none from it on has.
C15_TailIsOldestLive ==
    (\A r \in Receivers : rpc[r] # "tail") =>
        /\ ~Freed(tail)
        /\ \A n \in NodeIds : Pos(n) < Pos(tail) => Freed(n)
        /\ \A n \in NodeIds : Pos(n) >= Pos(tail) => ~Freed(n)

\* ------------------------------------------------------------------ C16
\* C16: tail changes only in the last step of an advance that has just
\* dropped the node tail pointed to, and then to that node's direct successor
\* in the chain; no other step changes it.
C16_TailStepsForward ==
    [][tail' # tail =>
          /\ \E r \in Receivers :
                 /\ rpc[r] = "tail" /\ rpc'[r] = "idle"
                 /\ rold[r] = tail /\ cur[r] = tail'
          /\ Freed(tail)
          /\ tail' = nodes[tail].next
          /\ Pos(tail') = Pos(tail) + 1]_vars

\* tail has moved twice: the sentinel and the first node of the chain have
\* been dropped by advances, and tail is the second node
C16_Witness ==
    /\ Pos(tail) = 2
    /\ Freed(Sentinel) /\ Freed(casOrder[1])
    /\ \E r \in Created : Len(got[r]) >= 2

\* ------------------------------------------------------------------ C17
\* Every link goes to the next node in the order of the head swaps
LinksInOrder ==
    \A n \in NodeIds : nodes[n].next # NULL => Pos(nodes[n].next) = Pos(n) + 1

\* The step in which sender s links the head it replaced to its node
Links(s) == spc[s] = "link" /\ spc'[s] # "link"

\* C17: the link of a send that has swapped head finds the previous head's
\* successor null and sets it to the send's node; a successor link once set
\* never changes; the assertion never fails; and the links follow the order of
\* the head swaps.
C17_SingleLinkWriter ==
    [][/\ \A s \in Senders :
              Links(s) => /\ nodes[shead[s]].next = NULL
                          /\ nodes'[shead[s]].next = snode[s]
                          /\ spc'[s] = "idle"
       /\ \A n \in NodeIds : nodes[n].next # NULL => nodes'[n].next = nodes[n].next
       /\ LinksInOrder']_vars

\* The later of two swaps has been linked while the earlier one has not
C17_Witness ==
    \E s, t \in Senders :
        /\ spc[s] = "link" /\ spc[t] = "idle"
        /\ Len(casOrder) >= 2
        /\ shead[s] = Sentinel
        /\ nodes[casOrder[1]].next = casOrder[2]

\* ------------------------------------------------------------------ C18
\* C18: no advance decrements a count that is 0, and every node's count is
\* between 0 and the number of receivers ever created.
C18_NoUnderflow ==
    /\ \A r \in Receivers : rpc[r] = "dec" => nodes[rold[r]].readers > 0
    /\ \A n \in NodeIds : nodes[n].readers <= Cardinality(Created)

\* ------------------------------------------------------------------ C19
\* The nodes that have been head, are head no longer, and have no successor
Unlinked == {n \in NodeIds : Pos(n) <= Len(casOrder) /\ n # head /\ nodes[n].next = NULL}

\* The senders that have swapped head and have still to link
Linking == {s \in Senders : spc[s] = "link"}

\* C19: head is a node and has no successor; a node that is no longer head
\* and has no successor is the head replaced by a send that has still to link,
\* and each such send has one of its own.
C19_HeadHasNoSuccessor ==
    /\ head # NULL
    /\ nodes[head].next = NULL
    /\ Unlinked = {shead[s] : s \in Linking}
    /\ \A s, t \in Linking : s # t => shead[s] # shead[t]

\* Two sends have swapped head and neither has linked
C19_Witness == Cardinality(Linking) = 2 /\ Cardinality(Unlinked) = 2

\* ------------------------------------------------------------------ C20
\* The counts of the nodes, and the nodes that have been dropped
Counts == [n \in NodeIds |-> nodes[n].readers]
FreedSet == {n \in NodeIds : Freed(n)}

\* C20: the steps of a call of next that returns None (finding the successor
\* null, returning) change neither the receiver's cursor and results, nor any
\* node's count, the total, head, tail or the set of dropped nodes.
C20_NoneChangesNothing ==
    [][\A r \in Receivers :
          (ReturnsNone(r) \/ (rpc[r] = "none" /\ rpc'[r] = "idle")) =>
              /\ cur'[r] = cur[r] /\ got'[r] = got[r]
              /\ Counts' = Counts
              /\ readers' = readers
              /\ head' = head /\ tail' = tail
              /\ FreedSet' = FreedSet]_vars

\* A receiver that has read and dropped nodes gets None while the other
\* receiver is behind it
C20_Witness ==
    \E r, q \in Created :
        /\ rpc[r] = "none" /\ Len(got[r]) > 0
        /\ FreedSet # {}
        /\ Pos(cur[q]) < Pos(cur[r])

====
